---- MODULE Spec2Model ----
(***************************************************************************)
(* Demuxer front ends of the Symphonia fork: the AIFF chunk walk and       *)
(* packet slicer (symphonia-format-aiff), the WavPack block header decoder *)
(* (symphonia-codec-wavpack) and the ISO-MP4 track fragment atom           *)
(* (symphonia-format-isomp4).                                              *)
(***************************************************************************)
EXTENDS Integers, Sequences, FiniteSets, TLC

(***************************************************************************)
(* Bounds of the explored inputs.                                          *)
(***************************************************************************)
MaxChunks == 3        \* local chunks in the FORM container
MaxExtraFrames == 1   \* frame counts 0..k and one full packet + 1 + (0..k)
MaxChannels == 3      \* COMM num_channels 1..k
MaxIoFaults == 1      \* failures the source may report besides end of file
MaxOddities == 1      \* departures of a file from a plain AIFF
CutBytes == 3         \* bytes missing at the end of a truncated file
CommExtra == 4        \* extra declared bytes of an over-long COMM chunk
UnknownSize == 2      \* declared payload size of a non-empty unknown chunk
MaxEosCalls == 2      \* next_packet calls followed after the end of the stream
MaxChildren == 3      \* child atoms of a traf atom
MaxChannelCount == 34 \* arguments 0..k of try_channel_count_to_mask
LeadBytes == 5        \* bytes of the stream before a WavPack block

(***************************************************************************)
(* Program constants of symphonia-format-aiff.                             *)
(***************************************************************************)
AIFF_STREAM_MARKER == <<70, 79, 82, 77>>      \* "FORM"
AIFF_FORM_TYPE == <<65, 73, 70, 70>>          \* "AIFF"
COMPRESSED_FORM_TYPE == <<65, 73, 70, 67>>    \* "AIFC"
COM_CHUNK_ID == <<67, 79, 77, 77>>            \* "COMM"
SSND_CHUNK_ID == <<83, 83, 78, 68>>           \* "SSND"
AIFF_MAX_FRAMES_PER_PACKET == 1152

\* ids that are not part of the reader: a RIFF marker, an 8SVX form, a NAME chunk
RiffMarker == <<82, 73, 70, 70>>
OtherFormType == <<56, 83, 86, 88>>
NameChunkId == <<78, 65, 77, 69>>
\* 44100 Hz as an 80 bit extended float
Rate44100 == <<64, 14, 172, 68, 0, 0, 0, 0, 0, 0>>
\* a sample rate field whose 10 bytes read as a NAME chunk of 2 bytes
RateLikeChunk == NameChunkId \o <<0, 0, 0, 2>> \o <<0, 0>>

Min(a, b) == IF a < b THEN a ELSE b

(***************************************************************************)
(* Big-endian integer fields.                                              *)
(***************************************************************************)
BE16(n) == <<(n \div 256) % 256, n % 256>>
BE32(n) == <<(n \div 16777216) % 256, (n \div 65536) % 256, (n \div 256) % 256, n % 256>>
Zeros(n) == [i \in 1..n |-> 0]

\* the largest size the model tells apart (2^30): every file explored is
\* shorter, and sums of cursor positions and sizes stay below 2^31
Huge == 64 * 16777216

\* u32::from_be_bytes; a value of 2^30 and more stands for a size beyond the
\* end of every file explored and is kept as Huge
U32FromBe(b) == IF b[1] >= 64 THEN Huge
                ELSE b[1] * 16777216 + b[2] * 65536 + b[3] * 256 + b[4]
\* i16::from_be_bytes
I16FromBe(b) == LET u == b[1] * 256 + b[2] IN IF u >= 32768 THEN u - 65536 ELSE u

(***************************************************************************)
(* The files the reader is opened on: a FORM header, up to MaxChunks local *)
(* chunks and the sound data, possibly truncated.                          *)
(***************************************************************************)
FrameCounts == (0..MaxExtraFrames) \cup
               {AIFF_MAX_FRAMES_PER_PACKET + 1 + k : k \in 0..MaxExtraFrames}

RECURSIVE SeqsUpTo(_, _)
SeqsUpTo(S, n) == IF n = 0 THEN {<<>>}
                  ELSE LET R == SeqsUpTo(S, n - 1)
                       IN R \cup {Append(r, s) : r \in {q \in R : Len(q) = n - 1}, s \in S}

Layouts == SeqsUpTo({"unk", "COMM", "SSND"}, MaxChunks)

AllBodies == [layout : Layouts,
              ch : 1..MaxChannels,
              bits : {8, 16},
              frames : FrameCounts,
              rate : {Rate44100, RateLikeChunk},
              commSize : {18, 18 + CommExtra},
              unkSize : {0, UnknownSize},
              ssnd : {<<0, 0>>, <<1, 0>>, <<0, 1>>},
              cut : {0, CutBytes}]

\* the number of ways a file departs from a plain 16 bit mono or stereo AIFF
Oddities(b) ==
    (IF b.ch > 2 THEN 1 ELSE 0) + (IF b.bits # 16 THEN 1 ELSE 0)
    + (IF b.commSize # 18 THEN 1 ELSE 0) + (IF b.unkSize = 0 THEN 1 ELSE 0)
    + (IF b.rate # Rate44100 THEN 1 ELSE 0)
    + (IF b.ssnd # <<0, 0>> THEN 1 ELSE 0) + (IF b.cut # 0 THEN 1 ELSE 0)

Bodies == {b \in AllBodies : Oddities(b) <= MaxOddities}

CanonicalBody == [layout |-> <<"COMM", "SSND">>, ch |-> 1, bits |-> 16, frames |-> 1,
                  rate |-> Rate44100,
                  commSize |-> 18, unkSize |-> UnknownSize, ssnd |-> <<0, 0>>, cut |-> 0]

Inputs == [marker : {AIFF_STREAM_MARKER}, form : {AIFF_FORM_TYPE}, body : Bodies]
          \cup
          [marker : {AIFF_STREAM_MARKER, RiffMarker},
           form : {AIFF_FORM_TYPE, COMPRESSED_FORM_TYPE, OtherFormType},
           body : {CanonicalBody}]

HasSsnd(b) == \E i \in 1..Len(b.layout) : b.layout[i] = "SSND"

\* the sound data follows the (last) SSND chunk header
DataLen(b) == IF HasSsnd(b) THEN (b.frames * b.ch * b.bits) \div 8 ELSE 0

RenderChunk(kind, b) ==
    CASE kind = "COMM" ->
            COM_CHUNK_ID \o BE32(b.commSize) \o BE16(b.ch) \o BE32(b.frames)
            \o BE16(b.bits) \o b.rate \o Zeros(b.commSize - 18)
      [] kind = "SSND" ->
            SSND_CHUNK_ID \o BE32(8 + DataLen(b)) \o BE32(b.ssnd[1]) \o BE32(b.ssnd[2])
      [] OTHER ->
            NameChunkId \o BE32(b.unkSize) \o Zeros(b.unkSize)

RECURSIVE RenderChunks(_, _)
RenderChunks(layout, b) ==
    IF layout = <<>> THEN <<>>
    ELSE RenderChunk(Head(layout), b) \o RenderChunks(Tail(layout), b)

\* the bytes before the sound data; the FORM size covers the whole file
RenderFile(in) ==
    LET chunks == RenderChunks(in.body.layout, in.body)
        total == 12 + Len(chunks) + DataLen(in.body)
    IN in.marker \o BE32(total - 8) \o in.form \o chunks

TotalLen(in) == Len(RenderFile(in)) + DataLen(in.body)

VARIABLES
    file,            \* the bytes of the file before the sound data
    srcLen,          \* number of bytes the source can deliver
    pos,             \* MediaSourceStream cursor
    faults,          \* failures the source may still report
    pc,              \* "start", "loop", "build", "open", "failed"
    result,          \* outcome of the last finished call
    ioFailed,        \* the source reported a failure during try_new
    pktFailed,       \* a next_packet call of this reader failed on the source
    eosCalls,        \* next_packet calls that signalled the end of the stream
    didRead,         \* the last next_packet call read from the source
    file_size,
    common_chunk,
    sound_chunk,
    unknown_chunks,
    lastChunk,       \* the arm the chunk loop executed last
    packet_info,
    n_frames,
    data_start_pos,
    data_end_pos,
    packets          \* the packets returned so far

aiffVars == <<file, srcLen, pos, faults, pc, result, ioFailed, pktFailed, eosCalls,
              didRead, file_size,
              common_chunk, sound_chunk, unknown_chunks, lastChunk, packet_info,
              n_frames, data_start_pos, data_end_pos, packets>>

VARIABLES
    wvBytes,         \* the bytes of the WavPack stream
    wvStart,         \* cursor of the stream when try_new is entered
    wvChecks,        \* the build panics on integer overflow (debug profile)
    wvPos,           \* MediaSourceStream cursor
    wvPc,            \* "start", "open", "failed", "mask", "done"
    wvResult,        \* outcome of the last finished call
    header,          \* the Header decode_header returned
    wvTrack,         \* codec parameters of the track
    wv_data_start_pos,
    wvSeekback,      \* bytes ensure_seekback_buffer made re-readable
    wvConsumed,      \* bytes decode_header consumed
    maskCount,       \* argument of try_channel_count_to_mask
    maskResult       \* its result

wvVars == <<wvBytes, wvStart, wvChecks, wvPos, wvPc, wvResult, header, wvTrack,
            wv_data_start_pos, wvSeekback, wvConsumed, maskCount, maskResult>>

VARIABLES
    trafChildren,    \* the child atoms of the traf atom
    trafIdx,         \* the child the AtomIterator yields next
    tfhd,            \* Option<TfhdAtom>
    truns,           \* Vec<TrunAtom>
    trafPc,          \* "iter", "done"
    trafResult       \* outcome of TrafAtom::read

trafVars == <<trafChildren, trafIdx, tfhd, truns, trafPc, trafResult>>

vars == <<aiffVars, wvVars, trafVars>>

(***************************************************************************)
(* MediaSourceStream.                                                      *)
(***************************************************************************)
Avail(p) == IF srcLen > p THEN srcLen - p ELSE 0
\* the sound data is the sample 0x7F7F throughout
ByteAt(p) == IF p < Len(file) THEN file[p + 1] ELSE 127
BytesAt(p, n) == [i \in 1..n |-> ByteAt(p + i - 1)]

\* a read of n bytes at p can be served in full
CanRead(p, n) == Avail(p) >= n
\* cursor advances a failing read of n bytes may leave behind: everything up
\* to the end of the file, or part of the request when the source fails
EofAdvance(p, n) == Min(n, Avail(p))
FaultAdvances(p, n) == {k \in {0, 1, n - 1} : k >= 0 /\ k < n /\ k <= Avail(p)}

(***************************************************************************)
(* Unsigned integers wider than the model checker's, as base 256 digits,   *)
(* most significant first: a u16 has 2, a u32 has 4 and a u64 has 8.       *)
(***************************************************************************)
Reverse(d) == [i \in 1..Len(d) |-> d[Len(d) + 1 - i]]
Widen(d, n) == Zeros(n - Len(d)) \o d
Truncate(d, n) == SubSeq(d, Len(d) - n + 1, Len(d))
IsZero(d) == \A i \in 1..Len(d) : d[i] = 0

RECURSIVE Carry(_, _)
\* d + c with the carries propagated, wrapped to the width of d
Carry(d, c) ==
    IF d = <<>> THEN <<>>
    ELSE LET n == Len(d)
             v == d[n] + c
         IN Append(Carry(SubSeq(d, 1, n - 1), v \div 256), v % 256)

RECURSIVE CarryOut(_, _)
\* what d + c carries out of the width of d
CarryOut(d, c) ==
    IF d = <<>> THEN c
    ELSE CarryOut(SubSeq(d, 1, Len(d) - 1), (d[Len(d)] + c) \div 256)

AddInt(d, k) == Carry(d, k)
Add(a, b) == Carry([i \in 1..Len(a) |-> a[i] + b[i]], 0)
MulInt(d, k) == Carry([i \in 1..Len(d) |-> d[i] * k], 0)

RECURSIVE SubOne(_)
\* d - 1, wrapping
SubOne(d) ==
    IF d = <<>> THEN <<>>
    ELSE LET n == Len(d)
         IN IF d[n] > 0 THEN [d EXCEPT ![n] = d[n] - 1]
            ELSE Append(SubOne(SubSeq(d, 1, n - 1)), 255)

\* d << 8k and d >> 8k within the width of d
ShlBytes(d, k) == SubSeq(d, k + 1, Len(d)) \o Zeros(k)

\* bit n of d, bit 0 the least significant
Bit(d, n) == (d[Len(d) - (n \div 8)] \div (2 ^ (n % 8))) % 2
\* (d >> (shift + 1)) & (2^width - 1): the field taken one bit too high
BitsShiftedByOne(d, shift, width) ==
    LET F[i \in 0..width] ==
            IF i = 0 THEN 0
            ELSE F[i - 1] + (IF shift + i <= 31
                             THEN (d[Len(d) - ((shift + i) \div 8)]
                                   \div (2 ^ ((shift + i) % 8))) % 2
                             ELSE 0) * (2 ^ (i - 1))
    IN F[width]
\* (d >> shift) & (2^width - 1), as a number
Bits(d, shift, width) ==
    LET F[i \in 0..width] ==
            IF i = 0 THEN 0 ELSE F[i - 1] + Bit(d, shift + i - 1) * (2 ^ (i - 1))
    IN F[width]
\* a | b on digits
BitOr(a, b) ==
    [i \in 1..Len(a) |->
        LET F[k \in 0..8] ==
                IF k = 0 THEN 0
                ELSE F[k - 1] + (IF (a[i] \div (2 ^ (k - 1))) % 2 = 1
                                    \/ (b[i] \div (2 ^ (k - 1))) % 2 = 1
                                 THEN 2 ^ (k - 1) ELSE 0)
        IN F[8]]
\* 1 << n as a u64, 0 <= n < 64
OneShl(n) == [i \in 1..8 |-> IF 8 - i = n \div 8 THEN 2 ^ (n % 8) ELSE 0]

(***************************************************************************)
(* symphonia-codec-wavpack: reader                                         *)
(***************************************************************************)
STREAM_MARKER == <<119, 118, 112, 107>>     \* "wvpk"
MAX_FRAMES_PER_PACKET == 1152
\* Header::SIZE without the checksum word
HeaderSIZEWithoutCrc == 4 * 7
HeaderSIZE == 4 * 8

\* source.ensure_seekback_buffer(len): the length made re-readable
EnsureSeekbackBuffer(len) == len
\* source.seek_buffered_rev(delta) at cursor p: back by delta, or to the
\* start of the stream when fewer bytes were read
SeekBufferedRev(p, delta) == p - Min(delta, p)

\* Channels::from_bits: every 32 bit mask names a set of channel positions
ChannelsFromBits(bits) == [some |-> TRUE, bits |-> bits]

try_channel_count_to_mask(count) ==
    LET mask == IF count \in 1..32
                THEN ChannelsFromBits(Truncate(SubOne(OneShl(count)), 4))
                ELSE [some |-> FALSE]
    IN IF mask.some THEN [ok |-> TRUE, channels |-> mask.bits]
       ELSE [ok |-> FALSE, err |-> "DecodeError"]

combine_values(u32_value, u8_value) ==
    LET u32_as_u64 == ShlBytes(Widen(u32_value, 8), 1)
        combined_value == BitOr(u32_as_u64, Widen(<<u8_value>>, 8))
    IN combined_value

\* read_u16, read_u32: little endian
ReadLe(b, off, n) == Reverse(SubSeq(b, off + 1, off + n))

NoHeader == [block_size |-> <<>>]

\* decode_header on the bytes b left in the stream: the result, the bytes
\* consumed and the header
decode_header(b, checks) ==
    IF Len(b) < 4 THEN [res |-> "IoError", used |-> Len(b), hdr |-> NoHeader]
    ELSE IF SubSeq(b, 1, 4) # STREAM_MARKER
    THEN [res |-> "Unsupported", used |-> 4, hdr |-> NoHeader]
    ELSE IF Len(b) < 10 THEN [res |-> "IoError", used |-> Len(b), hdr |-> NoHeader]
    ELSE IF ReadLe(b, 8, 2) \notin {<<4, 2>>, <<4, 16>>}
    THEN [res |-> "Unsupported", used |-> 10, hdr |-> NoHeader]
    ELSE IF Len(b) < 32 THEN [res |-> "IoError", used |-> Len(b), hdr |-> NoHeader]
    ELSE
    LET ck_size == ReadLe(b, 4, 4)
        version == ReadLe(b, 8, 2)
        block_index_u8 == b[11]
        total_samples_u8 == b[12]
        total_samples_u32 == ReadLe(b, 12, 4)
        block_index_u32 == ReadLe(b, 16, 4)
        block_samples == ReadLe(b, 20, 4)
        block_index == combine_values(block_index_u32, block_index_u8)
        total_samples ==
            IF IsZero(block_index)
            THEN [some |-> TRUE, val |-> combine_values(total_samples_u32, total_samples_u8)]
            ELSE [some |-> FALSE]
        flags == ReadLe(b, 24, 4)
        crc == ReadLe(b, 28, 4)
        bitdepth == Bits(flags, 0, 2)
        bits_per_sample == CASE bitdepth = 0 -> 8
                             [] bitdepth = 1 -> 16
                             [] bitdepth = 2 -> 24
                             [] bitdepth = 3 -> 32
    IN IF checks /\ CarryOut(ck_size, 8) # 0
       THEN [res |-> "Panic", used |-> 32, hdr |-> NoHeader]
       ELSE [res |-> "Ok", used |-> 32, hdr |->
          [block_size |-> AddInt(ck_size, 8),
           version |-> version,
           block_samples |-> block_samples,
           block_index |-> block_index,
           total_samples |-> total_samples,
           crc |-> crc,
           stereo |-> Bits(flags, 2, 1) = 0,
           bits_per_sample |-> bits_per_sample,
           hybrid_mode |-> Bits(flags, 3, 1) = 1,
           joint_stereo |-> Bits(flags, 4, 1) = 1,
           cross_channel_decorrelation |-> Bits(flags, 5, 1) = 1,
           hybrid_noise_shaping |-> Bits(flags, 6, 1) = 1,
           floating_point_data |-> Bits(flags, 7, 1) = 1,
           extended_size |-> Bits(flags, 8, 1) = 1,
           hybrid_mode_params_control_noise_level |-> Bits(flags, 9, 1) = 0,
           first_block_in_sequence |-> Bits(flags, 11, 1) = 1,
           last_block_in_sequence |-> Bits(flags, 12, 1) = 1,
           data_left_shift |-> Bits(flags, 13, 5),
           max_magnitude |-> Bits(flags, 18, 5),
           sample_rate |-> Bits(flags, 23, 4),
           contains_checksum |-> Bits(flags, 28, 1) = 1,
           irr |-> Bits(flags, 29, 1) = 1,
           false_stereo |-> Bits(flags, 30, 1) = 1,
           encoding |-> IF Bits(flags, 31, 1) = 0 THEN "PCM" ELSE "DSD"]]

(***************************************************************************)
(* The WavPack streams the reader is opened on: one block header at the    *)
(* cursor, whole or truncated.                                             *)
(***************************************************************************)
SplitFields == {<<0, <<0, 0, 0, 0>>>>, <<1, <<0, 0, 0, 0>>>>, <<0, <<0, 0, 0, 1>>>>,
                <<255, <<255, 255, 255, 255>>>>}
\* flag words, most significant byte first: each multi-bit field alone and
\* each field clear with every other bit set, the unused bit 27, bit 9
FlagWords == {<<0, 0, 0, 0>>, <<0, 0, 0, 1>>, <<0, 0, 2, 5>>, <<128, 0, 32, 14>>,
              <<255, 255, 255, 255>>,
              <<0, 0, 0, 2>>, <<0, 0, 0, 3>>, <<255, 255, 255, 252>>,
              <<0, 3, 224, 0>>, <<255, 252, 31, 255>>,
              <<0, 124, 0, 0>>, <<255, 131, 255, 255>>,
              <<7, 128, 0, 0>>, <<248, 127, 255, 255>>,
              <<8, 0, 0, 0>>, <<0, 0, 2, 1>>}

WvHeaders == [marker : {STREAM_MARKER, RiffMarker},
              ck_size : {<<0, 0, 0, 24>>, <<255, 255, 255, 248>>},
              version : {<<4, 2>>, <<4, 16>>, <<4, 3>>},
              index : SplitFields,
              total : SplitFields,
              block_samples : {<<0, 0, 0, 0>>, <<0, 0, 0, 7>>},
              flags : FlagWords,
              crc : {<<1, 2, 3, 4>>}]

RenderHeader(h) ==
    h.marker \o Reverse(h.ck_size) \o Reverse(h.version)
    \o <<h.index[1], h.total[1]>> \o Reverse(h.total[2]) \o Reverse(h.index[2])
    \o Reverse(h.block_samples) \o Reverse(h.flags) \o Reverse(h.crc)

CanonicalHeader == [marker |-> STREAM_MARKER, ck_size |-> <<0, 0, 0, 24>>,
                    version |-> <<4, 16>>, index |-> <<0, <<0, 0, 0, 0>>>>,
                    total |-> <<0, <<0, 0, 0, 1>>>>, block_samples |-> <<0, 0, 0, 7>>,
                    flags |-> <<0, 0, 0, 1>>, crc |-> <<1, 2, 3, 4>>]

WvStreams == {RenderHeader(h) : h \in WvHeaders}
             \cup {SubSeq(RenderHeader(CanonicalHeader), 1, n) : n \in {3, 9, 31}}

ChannelCounts == 0..MaxChannelCount

WvIdle ==
    /\ wvBytes = <<>>
    /\ wvStart = 0
    /\ wvChecks = FALSE
    /\ wvPos = 0
    /\ wvPc = "idle"
    /\ wvResult = "none"
    /\ header = NoHeader
    /\ wvTrack = <<>>
    /\ wv_data_start_pos = <<>>
    /\ wvSeekback = 0
    /\ wvConsumed = 0
    /\ maskCount = 0
    /\ maskResult = <<>>

WvInit ==
    /\ wvResult = "none"
    /\ header = NoHeader
    /\ wvTrack = <<>>
    /\ wv_data_start_pos = <<>>
    /\ wvSeekback = 0
    /\ wvConsumed = 0
    /\ maskResult = <<>>
    /\ \/ /\ wvPc = "start"
          /\ wvBytes \in WvStreams
          /\ wvStart \in {0, LeadBytes}
          /\ wvChecks \in BOOLEAN
          /\ wvPos = wvStart
          /\ maskCount = 0
       \/ /\ wvPc = "mask"
          /\ wvBytes = <<>>
          /\ wvStart = 0
          /\ wvChecks = FALSE
          /\ wvPos = 0
          /\ maskCount \in ChannelCounts

\* WavPackReader::try_new
WvTryNew ==
    /\ wvPc = "start"
    /\ LET original_pos == wvPos
           d == decode_header(wvBytes, wvChecks)
       IN IF d.res # "Ok"
          THEN /\ wvPc' = "failed"
               /\ wvResult' = d.res
               /\ wvPos' = wvPos + d.used
               /\ wvSeekback' = EnsureSeekbackBuffer(HeaderSIZE)
               /\ wvConsumed' = d.used
               /\ UNCHANGED <<header, wvTrack, wv_data_start_pos>>
          ELSE LET n_channels == IF d.hdr.stereo THEN 2 ELSE 1
                   channels == try_channel_count_to_mask(n_channels)
               IN /\ header' = d.hdr
                  /\ wvSeekback' = EnsureSeekbackBuffer(HeaderSIZE)
                  /\ wvConsumed' = d.used
                  /\ wvPos' = SeekBufferedRev(wvPos + d.used, HeaderSIZE)
                  /\ IF ~channels.ok
                     THEN /\ wvPc' = "failed"
                          /\ wvResult' = channels.err
                          /\ UNCHANGED <<wvTrack, wv_data_start_pos>>
                     ELSE /\ wvPc' = "open"
                          /\ wvResult' = "Ok"
                          /\ wvTrack' =
                                 [codec |-> IF d.hdr.encoding = "PCM"
                                            THEN "CODEC_TYPE_WAVPACK_PCM_I_16"
                                            ELSE "CODEC_TYPE_WAVPACK_DSD",
                                  bits_per_coded_sample |-> d.hdr.bits_per_sample,
                                  bits_per_sample |-> d.hdr.bits_per_sample,
                                  channels |-> channels.channels,
                                  frames_per_block |-> Widen(d.hdr.block_samples, 8),
                                  max_frames_per_packet |->
                                      MulInt(Widen(d.hdr.block_samples, 8),
                                             MAX_FRAMES_PER_PACKET)]
                          /\ wv_data_start_pos' =
                                 Add(Widen(<<original_pos>>, 8), d.hdr.block_index)
    /\ UNCHANGED <<wvBytes, wvStart, wvChecks, maskCount, maskResult>>
    /\ UNCHANGED <<aiffVars, trafVars>>

\* WavPackReader::next_packet: todo!("next_packet")
WvNextPacket ==
    /\ wvPc = "open"
    /\ IF wvTrack = <<>>
       THEN wvResult' = "DecodeError" /\ UNCHANGED wvPc
       ELSE wvResult' = "Panic" /\ wvPc' = "panicked"
    /\ UNCHANGED <<wvBytes, wvStart, wvChecks, wvPos, header, wvTrack,
                   wv_data_start_pos, wvSeekback, wvConsumed, maskCount, maskResult>>
    /\ UNCHANGED <<aiffVars, trafVars>>

\* a call of try_channel_count_to_mask
ChannelCountToMask ==
    /\ wvPc = "mask"
    /\ maskResult' = try_channel_count_to_mask(maskCount)
    /\ wvPc' = "done"
    /\ UNCHANGED <<wvBytes, wvStart, wvChecks, wvPos, wvResult, header, wvTrack,
                   wv_data_start_pos, wvSeekback, wvConsumed, maskCount>>
    /\ UNCHANGED <<aiffVars, trafVars>>

(***************************************************************************)
(* AiffReader::try_new                                                     *)
(***************************************************************************)
NoChunk == [kind |-> "none", start |-> 0, size |-> 0]

AiffInit ==
    \E in \in Inputs :
        /\ file = RenderFile(in)
        /\ srcLen = TotalLen(in) - in.body.cut
        /\ pos = 0
        /\ faults = MaxIoFaults
        /\ pc = "start"
        /\ result = "none"
        /\ ioFailed = FALSE
        /\ pktFailed = FALSE
        /\ eosCalls = 0
        /\ didRead = FALSE
        /\ file_size = 0
        /\ common_chunk = [num_channels |-> 0, num_sample_frames |-> 0,
                           sample_size |-> 0, sample_rate |-> Zeros(10)]
        /\ sound_chunk = [offset |-> 0, block_size |-> 0]
        /\ unknown_chunks = <<>>
        /\ lastChunk = NoChunk
        /\ packet_info = [block_size |-> 0, frames_per_block |-> 0,
                          max_blocks_per_packet |-> 0]
        /\ n_frames = 0
        /\ data_start_pos = 0
        /\ data_end_pos = 0
        /\ packets = <<>>

\* try_new returns err: the source is dropped with the reader never built
Fail(err, io) ==
    /\ pc' = "failed"
    /\ result' = err
    /\ ioFailed' = (ioFailed \/ io)

\* a read whose result is propagated with `?` fails: at the end of the file,
\* or because the source reports a failure
ReadFails(p, n) == ~CanRead(p, n) \/ faults > 0

IoFail(p, n) ==
    /\ ReadFails(p, n)
    /\ faults' = IF CanRead(p, n) THEN faults - 1 ELSE faults
    /\ Fail("IoError", TRUE)

TryNewHeader ==
    /\ pc = "start"
    /\ \/ /\ IoFail(pos, 12)
          /\ UNCHANGED <<pos, file_size>>
       \/ /\ CanRead(pos, 12)
          /\ pos' = pos + 12
          /\ UNCHANGED faults
          /\ IF BytesAt(pos, 4) # AIFF_STREAM_MARKER
             THEN Fail("Unsupported", FALSE) /\ UNCHANGED file_size
             ELSE IF BytesAt(pos + 8, 4) # AIFF_FORM_TYPE
             THEN Fail("Unsupported", FALSE) /\ UNCHANGED file_size
             ELSE /\ file_size' = U32FromBe(BytesAt(pos + 4, 4)) + 8
                  /\ pc' = "loop"
                  /\ UNCHANGED <<result, ioFailed>>
    /\ UNCHANGED <<file, srcLen, didRead, pktFailed, eosCalls, common_chunk, sound_chunk, unknown_chunks,
                   lastChunk, packet_info, n_frames, data_start_pos, data_end_pos,
                   packets>>
    /\ UNCHANGED <<wvVars, trafVars>>

\* panic!("aiff: No SSND chunk was found")
LoopPanic ==
    /\ pc = "loop"
    /\ pos >= file_size
    /\ Fail("Panic", FALSE)
    /\ UNCHANGED <<file, srcLen, pos, faults, didRead, pktFailed, eosCalls, file_size, common_chunk,
                   sound_chunk, unknown_chunks, lastChunk, packet_info, n_frames,
                   data_start_pos, data_end_pos, packets>>
    /\ UNCHANGED <<wvVars, trafVars>>

\* let id = source.read_quad_bytes()?  fails
ReadIdFail ==
    /\ pc = "loop"
    /\ pos < file_size
    /\ IoFail(pos, 4)
    /\ UNCHANGED <<file, srcLen, pos, didRead, pktFailed, eosCalls, file_size, common_chunk, sound_chunk,
                   unknown_chunks, lastChunk, packet_info, n_frames, data_start_pos,
                   data_end_pos, packets>>
    /\ UNCHANGED <<wvVars, trafVars>>

\* source.read_buf(buf) of n bytes at p, result discarded by the caller:
\* the set of <<cursor advance, bytes in buf, failure reported, fault used>>
ReadBuf(p, n) ==
    {<<EofAdvance(p, n),
       BytesAt(p, EofAdvance(p, n)) \o Zeros(n - EofAdvance(p, n)),
       Avail(p) = 0, FALSE>>}
    \cup
    {<<k, BytesAt(p, k) \o Zeros(n - k), TRUE, TRUE>> :
        k \in IF faults > 0 THEN FaultAdvances(p, n) ELSE {}}

\* source.ignore_bytes(n) at p, result discarded by the caller:
\* the set of <<cursor advance, failure reported, fault used>>
IgnoreBytes(p, n) ==
    {<<EofAdvance(p, n), ~CanRead(p, n), FALSE>>}
    \cup
    {<<k, TRUE, TRUE>> : k \in IF faults > 0 THEN FaultAdvances(p, n) ELSE {}}

\* the COMM arm of the chunk loop
CommChunk ==
    /\ pc = "loop"
    /\ pos < file_size
    /\ CanRead(pos, 4)
    /\ BytesAt(pos, 4) = COM_CHUNK_ID
    /\ \/ /\ IoFail(pos + 4, 12)
          /\ UNCHANGED <<pos, common_chunk, lastChunk>>
       \/ /\ CanRead(pos + 4, 12)
          /\ \E r \in ReadBuf(pos + 16, 10) :
                /\ pos' = pos + 16 + r[1]
                /\ common_chunk' =
                       [num_channels |-> I16FromBe(BytesAt(pos + 8, 2)),
                        num_sample_frames |-> U32FromBe(BytesAt(pos + 10, 4)),
                        sample_size |-> I16FromBe(BytesAt(pos + 14, 2)),
                        sample_rate |-> r[2]]
                /\ ioFailed' = (ioFailed \/ r[3])
                /\ faults' = IF r[4] THEN faults - 1 ELSE faults
          /\ lastChunk' = [kind |-> "COMM", start |-> pos,
                           size |-> U32FromBe(BytesAt(pos + 4, 4))]
          /\ UNCHANGED <<pc, result>>
    /\ UNCHANGED <<file, srcLen, didRead, pktFailed, eosCalls, file_size, sound_chunk, unknown_chunks,
                   packet_info, n_frames, data_start_pos, data_end_pos, packets>>
    /\ UNCHANGED <<wvVars, trafVars>>

\* the SSND arm of the chunk loop
SsndChunk ==
    /\ pc = "loop"
    /\ pos < file_size
    /\ CanRead(pos, 4)
    /\ BytesAt(pos, 4) = SSND_CHUNK_ID
    /\ \/ /\ IoFail(pos + 4, 12)
          /\ UNCHANGED <<pos, sound_chunk, lastChunk>>
       \/ /\ CanRead(pos + 4, 12)
          /\ pos' = pos + 16
          /\ UNCHANGED faults
          /\ lastChunk' = [kind |-> "SSND", start |-> pos,
                           size |-> U32FromBe(BytesAt(pos + 4, 4))]
          /\ LET offset == U32FromBe(BytesAt(pos + 8, 4))
                 block_size == U32FromBe(BytesAt(pos + 12, 4))
             IN IF offset # 0 \/ block_size # 0
                THEN Fail("Unsupported", FALSE) /\ UNCHANGED sound_chunk
                ELSE /\ sound_chunk' = [offset |-> offset, block_size |-> block_size]
                     /\ pc' = "build"
                     /\ UNCHANGED <<result, ioFailed>>
    /\ UNCHANGED <<file, srcLen, didRead, pktFailed, eosCalls, file_size, common_chunk, unknown_chunks,
                   packet_info, n_frames, data_start_pos, data_end_pos, packets>>
    /\ UNCHANGED <<wvVars, trafVars>>

\* the arm of the chunk loop for every other id
UnknownChunk ==
    /\ pc = "loop"
    /\ pos < file_size
    /\ CanRead(pos, 4)
    /\ BytesAt(pos, 4) \notin {COM_CHUNK_ID, SSND_CHUNK_ID}
    /\ \/ /\ IoFail(pos + 4, 4)
          /\ UNCHANGED <<pos, unknown_chunks, lastChunk>>
       \/ /\ CanRead(pos + 4, 4)
          /\ LET data_size == U32FromBe(BytesAt(pos + 4, 4))
             IN /\ \E r \in IgnoreBytes(pos + 8, data_size) :
                      /\ pos' = pos + 8 + r[1]
                      /\ ioFailed' = (ioFailed \/ r[2])
                      /\ faults' = IF r[3] THEN faults - 1 ELSE faults
                /\ unknown_chunks' = Append(unknown_chunks,
                                            [id |-> BytesAt(pos, 4), data_size |-> data_size])
                /\ lastChunk' = [kind |-> "unknown", start |-> pos, size |-> data_size]
          /\ UNCHANGED <<pc, result>>
    /\ UNCHANGED <<file, srcLen, didRead, pktFailed, eosCalls, file_size, common_chunk, sound_chunk,
                   packet_info, n_frames, data_start_pos, data_end_pos, packets>>
    /\ UNCHANGED <<wvVars, trafVars>>

\* DataBounds with the start taken before the offset and block size fields
\* of the SSND chunk were read
DataBoundsBeforeSsndFields(p, fsize) == [start |-> p - 8, end |-> fsize - 1]

\* data_start_pos and data_end_pos of the reader, from the cursor after the
\* SSND header and the size of the file
DataBounds(p, fsize) == [start |-> p, end |-> fsize - 1]

\* BuildTrack without the checks of the channel count and the sample size
BuildTrackUnchecked ==
    /\ pc = "build"
    /\ packet_info' =
           [block_size |->
                (common_chunk.num_channels * common_chunk.sample_size) \div 8,
            frames_per_block |-> 1,
            max_blocks_per_packet |-> AIFF_MAX_FRAMES_PER_PACKET]
    /\ n_frames' = common_chunk.num_sample_frames
    /\ data_start_pos' = DataBounds(pos, file_size).start
    /\ data_end_pos' = DataBounds(pos, file_size).end
    /\ pc' = "open"
    /\ result' = "Ok"
    /\ UNCHANGED ioFailed
    /\ UNCHANGED <<file, srcLen, pos, faults, didRead, pktFailed, eosCalls, file_size, common_chunk,
                   sound_chunk, unknown_chunks, lastChunk, packets>>
    /\ UNCHANGED <<wvVars, trafVars>>

\* the track and the packet layout, built once the SSND chunk was found
BuildTrack ==
    /\ pc = "build"
    /\ IF common_chunk.num_channels \notin {1, 2}
       THEN /\ Fail("Unsupported", FALSE)
            /\ UNCHANGED <<packet_info, n_frames, data_start_pos, data_end_pos>>
       ELSE IF common_chunk.sample_size # 16
       THEN /\ Fail("DecodeError", FALSE)
            /\ UNCHANGED <<packet_info, n_frames, data_start_pos, data_end_pos>>
       ELSE /\ packet_info' =
                   [block_size |->
                        (common_chunk.num_channels * common_chunk.sample_size) \div 8,
                    frames_per_block |-> 1,
                    max_blocks_per_packet |-> AIFF_MAX_FRAMES_PER_PACKET]
            /\ n_frames' = common_chunk.num_sample_frames
            /\ data_start_pos' = DataBounds(pos, file_size).start
            /\ data_end_pos' = DataBounds(pos, file_size).end
            /\ pc' = "open"
            /\ result' = "Ok"
            /\ UNCHANGED ioFailed
    /\ UNCHANGED <<file, srcLen, pos, faults, didRead, pktFailed, eosCalls, file_size, common_chunk,
                   sound_chunk, unknown_chunks, lastChunk, packets>>
    /\ UNCHANGED <<wvVars, trafVars>>

(***************************************************************************)
(* AiffReader::next_packet                                                 *)
(***************************************************************************)
\* get_frames without the division by the block size: bytes, not frames
get_frames_in_bytes(data_len) == data_len * packet_info.frames_per_block

\* PacketInfo::get_frames
get_frames(data_len) == (data_len \div packet_info.block_size) * packet_info.frames_per_block

\* the number of complete blocks remaining in the data chunk
NumBlocksLeft(p) ==
    IF p < data_end_pos THEN (data_end_pos - p) \div packet_info.block_size ELSE 0

NextPacketZeroBlock ==
    /\ packet_info.block_size = 0
    /\ result' = "DecodeError"
    /\ didRead' = FALSE
    /\ UNCHANGED <<pos, faults, packets, pktFailed, eosCalls>>

\* the end of the stream signalled only after another read of the source
NextPacketEndOfStreamAfterRead ==
    /\ packet_info.block_size # 0
    /\ NumBlocksLeft(pos) = 0
    /\ eosCalls < MaxEosCalls
    /\ eosCalls' = eosCalls + 1
    /\ result' = "EndOfStream"
    /\ didRead' = TRUE
    /\ UNCHANGED <<pos, faults, packets, pktFailed>>

\* zero blocks remain: end_of_stream_error()
NextPacketEndOfStream ==
    /\ packet_info.block_size # 0
    /\ NumBlocksLeft(pos) = 0
    /\ eosCalls < MaxEosCalls
    /\ eosCalls' = eosCalls + 1
    /\ result' = "EndOfStream"
    /\ didRead' = FALSE
    /\ UNCHANGED <<pos, faults, packets, pktFailed>>

NextPacketRead ==
    /\ packet_info.block_size # 0
    /\ NumBlocksLeft(pos) # 0
    /\ LET blocks_per_packet == Min(NumBlocksLeft(pos), packet_info.max_blocks_per_packet)
           dur == blocks_per_packet * packet_info.frames_per_block
           packet_len == blocks_per_packet * packet_info.block_size
       IN /\ didRead' = TRUE
          /\ \/ /\ CanRead(pos, packet_len)
                /\ pos' = pos + packet_len
                /\ packets' = Append(packets,
                                     [start |-> pos, len |-> packet_len,
                                      pts |-> get_frames(pos - data_start_pos),
                                      dur |-> dur])
                /\ result' = "Ok"
                /\ UNCHANGED <<faults, pktFailed>>
             \/ /\ ~CanRead(pos, packet_len)
                /\ pos' = pos + EofAdvance(pos, packet_len)
                /\ result' = "IoError"
                /\ pktFailed' = TRUE
                /\ UNCHANGED <<faults, packets>>
             \/ /\ faults > 0
                /\ \E k \in FaultAdvances(pos, packet_len) : pos' = pos + k
                /\ faults' = faults - 1
                /\ result' = "IoError"
                /\ pktFailed' = TRUE
                /\ UNCHANGED packets
    /\ UNCHANGED eosCalls

NextPacket ==
    /\ pc = "open"
    /\ \/ NextPacketZeroBlock
       \/ NextPacketEndOfStream
       \/ NextPacketRead
    /\ UNCHANGED <<file, srcLen, pc, ioFailed, file_size, common_chunk, sound_chunk,
                   unknown_chunks, lastChunk, packet_info, n_frames, data_start_pos,
                   data_end_pos>>
    /\ UNCHANGED <<wvVars, trafVars>>

AiffIdle ==
    /\ file = <<>>
    /\ srcLen = 0
    /\ pos = 0
    /\ faults = 0
    /\ pc = "idle"
    /\ result = "none"
    /\ ioFailed = FALSE
    /\ pktFailed = FALSE
    /\ eosCalls = 0
    /\ didRead = FALSE
    /\ file_size = 0
    /\ common_chunk = [num_channels |-> 0, num_sample_frames |-> 0,
                       sample_size |-> 0, sample_rate |-> Zeros(10)]
    /\ sound_chunk = [offset |-> 0, block_size |-> 0]
    /\ unknown_chunks = <<>>
    /\ lastChunk = NoChunk
    /\ packet_info = [block_size |-> 0, frames_per_block |-> 0,
                      max_blocks_per_packet |-> 0]
    /\ n_frames = 0
    /\ data_start_pos = 0
    /\ data_end_pos = 0
    /\ packets = <<>>

(***************************************************************************)
(* symphonia-format-isomp4: TrafAtom::read                                 *)
(***************************************************************************)
\* a child atom: its type, and whether its header or its body cannot be read
ChildAtoms == [atype : {"tfhd", "trun"}, err : {"none", "header", "body"}]
              \cup [atype : {"other"}, err : {"none", "header"}]

NoTfhd == [some |-> FALSE]

TrafIdle ==
    /\ trafChildren = <<>>
    /\ trafIdx = 0
    /\ tfhd = NoTfhd
    /\ truns = <<>>
    /\ trafPc = "idle"
    /\ trafResult = "none"

TrafInit ==
    /\ trafChildren \in SeqsUpTo(ChildAtoms, MaxChildren)
    /\ trafIdx = 1
    /\ tfhd = NoTfhd
    /\ truns = <<>>
    /\ trafPc = "iter"
    /\ trafResult = "none"

\* AtomIterator::next: the next child header, None after the last child, or
\* the error of a child header that cannot be read
IterNext(children, idx) ==
    IF idx > Len(children) THEN [res |-> "None"]
    ELSE IF children[idx].err = "header" THEN [res |-> "Err", err |-> "DecodeError"]
    ELSE [res |-> "Some", atype |-> children[idx].atype]

\* AtomIterator::read_atom of child idx
ReadAtom(children, idx) ==
    IF children[idx].err = "body" THEN [ok |-> FALSE, err |-> "IoError"]
    ELSE [ok |-> TRUE, atom |-> [atype |-> children[idx].atype, child |-> idx]]

\* what the match on a child's type leaves in tfhd and truns
TrafDispatch(atype, atom, t, rs) ==
    CASE atype = "tfhd" -> [tfhd |-> [some |-> TRUE, atom |-> atom], truns |-> rs]
      [] atype = "trun" -> [tfhd |-> t, truns |-> Append(rs, atom)]
      [] OTHER -> [tfhd |-> t, truns |-> rs]

\* one turn of the loop over the children
TrafChild ==
    /\ trafPc = "iter"
    /\ LET h == IterNext(trafChildren, trafIdx)
       IN /\ h.res # "None"
          /\ IF h.res = "Err"
             THEN /\ trafPc' = "done"
                  /\ trafResult' = h.err
                  /\ UNCHANGED <<tfhd, truns, trafIdx>>
             ELSE IF h.atype \in {"tfhd", "trun"} /\ ~ReadAtom(trafChildren, trafIdx).ok
             THEN /\ trafPc' = "done"
                  /\ trafResult' = ReadAtom(trafChildren, trafIdx).err
                  /\ UNCHANGED <<tfhd, truns, trafIdx>>
             ELSE LET atom == IF h.atype = "other" THEN <<>>
                              ELSE ReadAtom(trafChildren, trafIdx).atom
                      d == TrafDispatch(h.atype, atom, tfhd, truns)
                  IN /\ tfhd' = d.tfhd
                     /\ truns' = d.truns
                     /\ trafIdx' = trafIdx + 1
                     /\ UNCHANGED <<trafPc, trafResult>>
    /\ UNCHANGED trafChildren
    /\ UNCHANGED <<aiffVars, wvVars>>

\* the result of TrafAtom::read once the children are exhausted
TrafValidate(t) == IF ~t.some THEN "DecodeError" ELSE "Ok"

\* the iterator is exhausted: "Tfhd is mandatory"
TrafEnd ==
    /\ trafPc = "iter"
    /\ IterNext(trafChildren, trafIdx).res = "None"
    /\ trafPc' = "done"
    /\ trafResult' = TrafValidate(tfhd)
    /\ UNCHANGED <<trafChildren, trafIdx, tfhd, truns>>
    /\ UNCHANGED <<aiffVars, wvVars>>

(***************************************************************************)
(* Specifications: one per reader.                                         *)
(***************************************************************************)
Init == AiffInit /\ WvIdle /\ TrafIdle

Next ==
    \/ TryNewHeader
    \/ LoopPanic
    \/ ReadIdFail
    \/ CommChunk
    \/ SsndChunk
    \/ UnknownChunk
    \/ BuildTrack
    \/ NextPacket

Spec == Init /\ [][Next]_vars

WvSpecInit == AiffIdle /\ WvInit /\ TrafIdle

WvNext ==
    \/ WvTryNew
    \/ WvNextPacket
    \/ ChannelCountToMask

SpecWavPack == WvSpecInit /\ [][WvNext]_vars

TrafSpecInit == AiffIdle /\ WvIdle /\ TrafInit

TrafNext ==
    \/ TrafChild
    \/ TrafEnd

SpecTraf == TrafSpecInit /\ [][TrafNext]_vars

(***************************************************************************)
(* Properties of the AIFF reader.                                          *)
(***************************************************************************)
RECURSIVE SumDur(_, _)
\* the sum of the durations of the first n packets
SumDur(ps, n) == IF n = 0 THEN 0 ELSE SumDur(ps, n - 1) + ps[n].dur

\* the first packet starts at data_start_pos, every later one where the one
\* before it ended
Contiguous ==
    \A i \in 1..Len(packets) :
        packets[i].start = IF i = 1 THEN data_start_pos
                           ELSE packets[i - 1].start + packets[i - 1].len

\* C1 as stated: in every sequence of next_packet calls of an opened reader
\* the byte ranges of the returned packets start at data_start_pos, never
\* overlap and never leave a gap.
C1_ContiguousInEverySequence == pc = "open" => Contiguous

\* C1, amended: in every sequence of next_packet calls none of which failed
\* on the source, the first returned packet starts at data_start_pos and each
\* later packet starts at the byte where the previous packet ended.
C1_ContiguousWhileNoCallFailed == (pc = "open" /\ ~pktFailed) => Contiguous

C1_Witness ==
    /\ pc = "open"
    /\ ~pktFailed
    /\ Len(packets) >= 2
    /\ packets[1].start = data_start_pos
    /\ packets[2].start = packets[1].start + packets[1].len

\* the file is a well-formed AIFF file read without any failure: the FORM
\* size is the size of the file and the bytes after the SSND header are
\* exactly the declared number of frames
WellFormedRun ==
    /\ pc = "open"
    /\ ~ioFailed
    /\ ~pktFailed
    /\ file_size = srcLen
    /\ (srcLen - data_start_pos) % packet_info.block_size = 0
    /\ (srcLen - data_start_pos) \div packet_info.block_size = n_frames

\* C2: for a well-formed file, the durations of the packets returned until
\* next_packet signals the end of the stream sum to the declared number of
\* frames of the track.
C2_DurationsSumToFrameCount ==
    (WellFormedRun /\ result = "EndOfStream") => SumDur(packets, Len(packets)) = n_frames

\* C3: across next_packet calls that all succeeded, the timestamps of the
\* returned packets do not decrease and each equals the sum of the durations
\* of the packets returned before it.
C3_PtsIsSumOfEarlierDurations ==
    (pc = "open" /\ ~pktFailed) =>
        \A i \in 1..Len(packets) :
            /\ packets[i].pts = SumDur(packets, i - 1)
            /\ i > 1 => packets[i - 1].pts <= packets[i].pts

C3_Witness ==
    /\ pc = "open"
    /\ ~pktFailed
    /\ Len(packets) >= 2
    /\ packets[2].pts = packets[1].dur
    /\ packets[2].pts > 0

\* C4: once next_packet has signalled the end of the stream, every later call
\* signals it again, returns no packet, reads nothing from the source and
\* leaves the cursor where it is.
C4_EndOfStreamIsSticky ==
    [][result = "EndOfStream" =>
          /\ result' = "EndOfStream"
          /\ packets' = packets
          /\ ~didRead'
          /\ pos' = pos]_vars

C4_Witness == result = "EndOfStream" /\ eosCalls >= 2 /\ ~didRead

\* C5: when the chunk walk reaches the declared size of the container
\* without having met the SSND chunk, try_new returns a Decode error.
C5_MissingSsndIsDecodeError ==
    [][(pc = "loop" /\ pos >= file_size) => (pc' = "failed" /\ result' = "DecodeError")]_vars

\* C6: a chunk that is neither COMM nor SSND is recorded with its id and
\* declared size, and the walk goes on only with the cursor at the start of
\* the chunk + 8 + the declared size.
C6_UnknownChunkSkippedExactly ==
    (pc = "loop" /\ lastChunk.kind = "unknown") =>
        /\ unknown_chunks[Len(unknown_chunks)] =
               [id |-> BytesAt(lastChunk.start, 4), data_size |-> lastChunk.size]
        /\ pos - (lastChunk.start + 8) = lastChunk.size

\* C10: every failure the source reports during try_new makes try_new fail
\* with that failure: try_new returns no reader after a read or skip failed.
C10_IoFailuresPropagate ==
    /\ pc = "open" => ~ioFailed
    /\ (pc = "failed" /\ ioFailed) => result = "IoError"

(***************************************************************************)
(* Properties of the WavPack header decoder and of the traf atom.          *)
(***************************************************************************)
\* high byte h and low word l as the 40 bit number h * 2^32 + l
Split40(h, l) == <<0, 0, 0, h>> \o l

\* C7: decode_header rebuilds each split 40 bit field, the block index and
\* the total sample count, as high byte * 2^32 + low word.
C7_SplitFieldsCombined ==
    wvPc = "open" =>
        /\ header.block_index = Split40(wvBytes[11], ReadLe(wvBytes, 16, 4))
        /\ header.total_samples.some =>
               header.total_samples.val = Split40(wvBytes[12], ReadLe(wvBytes, 12, 4))

\* the number of tfhd children of the traf atom
NumTfhd == Cardinality({i \in 1..Len(trafChildren) : trafChildren[i].atype = "tfhd"})
NumTrun == Cardinality({i \in 1..Len(trafChildren) : trafChildren[i].atype = "trun"})
AllChildrenReadable == \A i \in 1..Len(trafChildren) : trafChildren[i].err = "none"

\* C8: over children that can all be read, TrafAtom::read succeeds exactly
\* when one tfhd child is among them, fails with a Decode error when none is,
\* and succeeds with an empty truns list when there is one tfhd and no trun.
C8_ExactlyOneTfhd ==
    (trafPc = "done" /\ AllChildrenReadable) =>
        /\ (trafResult = "Ok") <=> (NumTfhd = 1)
        /\ NumTfhd = 0 => trafResult = "DecodeError"
        /\ (NumTfhd = 1 /\ NumTrun = 0) => (trafResult = "Ok" /\ truns = <<>>)

\* C9: a channel count outside 1..=32 is rejected with an Unsupported error;
\* for a count N inside 1..=32 the mask has exactly the N lowest bits set.
C9_ChannelCountToMask ==
    wvPc = "done" =>
        IF maskCount \in 1..32
        THEN /\ maskResult.ok
             /\ \A i \in 0..31 :
                    Bit(maskResult.channels, i) = IF i < maskCount THEN 1 ELSE 0
        ELSE ~maskResult.ok /\ maskResult.err = "Unsupported"

(***************************************************************************)
(* Properties of the WavPack block header.                                 *)
(***************************************************************************)
\* the stream holds a complete 32 byte header and try_new has returned
CompleteHeaderDecoded == wvPc \in {"open", "failed"} /\ Len(wvBytes) = HeaderSIZE
BadMagicOrVersion ==
    \/ SubSeq(wvBytes, 1, 4) # STREAM_MARKER
    \/ <<wvBytes[10], wvBytes[9]>> \notin {<<4, 2>>, <<4, 16>>}

\* C11: decoding a complete header fails with Unsupported exactly when the
\* magic is not "wvpk" or the version is neither 0x402 nor 0x410, and every
\* other complete header decodes successfully.
C11_OnlyMagicAndVersionRejected ==
    CompleteHeaderDecoded =>
        /\ (wvResult = "Unsupported") <=> BadMagicOrVersion
        /\ ~BadMagicOrVersion => wvResult = "Ok"

\* the flag word of the stream, as the bytes f[1] (bits 24-31) .. f[4] (bits 0-7)
FlagBytes == <<wvBytes[28], wvBytes[27], wvBytes[26], wvBytes[25]>>

\* C12: bits_per_sample is the element of (8, 16, 24, 32) selected by bits
\* 0-1 of the flag word, data_left_shift is bits 13-17, max_magnitude is bits
\* 18-22 and the sample rate code is bits 23-26, each a function of its own
\* bits only.
C12_FlagFieldsFromOwnBits ==
    (wvPc = "open" /\ Len(wvBytes) = HeaderSIZE) =>
        LET f == FlagBytes
        IN /\ header.bits_per_sample = 8 * ((f[4] % 4) + 1)
           /\ header.data_left_shift = (f[3] \div 32) + 8 * (f[2] % 4)
           /\ header.max_magnitude = (f[2] \div 4) % 32
           /\ header.sample_rate = (f[2] \div 128) + 2 * (f[1] % 8)

\* a header was decoded whose shift field is all ones while every bit
\* outside it is clear
C12_Witness ==
    /\ wvPc = "open"
    /\ FlagBytes = <<0, 3, 224, 0>>
    /\ header.data_left_shift = 31
    /\ header.max_magnitude = 0
    /\ header.sample_rate = 0
    /\ header.bits_per_sample = 8

\* the flag word encodes 16 bit stereo lossless: bit depth code 1, bits 2, 3 clear
ScenarioA == Len(wvBytes) = HeaderSIZE /\ FlagBytes[4] % 16 = 1

\* C13: opening a single block stream whose flags encode 16 bit stereo
\* lossless yields a track of bit depth 16, and the first next_packet call
\* on that reader returns a packet instead of failing.
C13_ScenarioAOnePacket ==
    ScenarioA =>
        /\ wvPc \in {"open", "panicked"} => wvTrack.bits_per_sample = 16
        /\ wvPc = "panicked" => wvResult = "Ok"

(***************************************************************************)
(* Properties of the AIFF packet layout and of the chunk walk.             *)
(***************************************************************************)
\* the whole blocks between p and the end of the data region, which for the
\* reader is the end of the file the FORM header declares
WholeBlocksToEnd(p) == (file_size - p) \div packet_info.block_size

\* C14: every packet returned at cursor position p holds
\* n = min(R, max_blocks_per_packet) >= 1 whole blocks, R the whole blocks
\* between p and the end of the data region: n * block_size bytes,
\* n * frames_per_block frames, pts = floor((p - data_start_pos) / block_size)
\* * frames_per_block.
C14_PacketIsMinOfRemainingAndMax ==
    pc = "open" =>
        \A i \in 1..Len(packets) :
            LET p == packets[i].start
                n == Min(WholeBlocksToEnd(p), packet_info.max_blocks_per_packet)
            IN /\ n >= 1
               /\ packets[i].len = n * packet_info.block_size
               /\ packets[i].dur = n * packet_info.frames_per_block
               /\ packets[i].pts = ((p - data_start_pos) \div packet_info.block_size)
                                       * packet_info.frames_per_block

\* C15: a reader returned by try_new has a block size above 0 in every state,
\* and next_packet never returns its "block size is 0" Decode error.
C15_BlockSizePositive ==
    pc = "open" => (packet_info.block_size > 0 /\ result # "DecodeError")

\* an opened reader has returned a packet and then the end of the stream
C15_Witness ==
    /\ pc = "open"
    /\ Len(packets) >= 1
    /\ result = "EndOfStream"
    /\ packet_info.block_size = 4

\* C16: the chunk walk never reads a chunk id at or beyond the declared total
\* size, every iteration that stays in the loop moves the cursor forward, and
\* the walk ends with try_new returning a reader or an error.
C16_ChunkWalkTerminates ==
    [][pc = "loop" =>
          /\ pos >= file_size => (pos' = pos /\ lastChunk' = lastChunk /\ pc' = "failed")
          /\ pc' = "loop" => pos' > pos
          /\ pc' = "failed" => result' \in {"IoError", "DecodeError", "Unsupported"}]_vars

\* C20: after the walk handled a COMM chunk of declared size S the cursor is
\* at COMM chunk start + 8 + S, the id field of the next chunk.
C20_CommChunkSkippedByDeclaredSize ==
    (pc = "loop" /\ lastChunk.kind = "COMM" /\ ~ioFailed) =>
        pos - (lastChunk.start + 8) = lastChunk.size

\* C17: the block size of the decoded header is the size field + 8 exactly,
\* for every value of the field, without wrapping and without failing.
C17_BlockSizeIsFieldPlusEight ==
    (CompleteHeaderDecoded /\ ~BadMagicOrVersion) =>
        /\ wvResult = "Ok"
        /\ Widen(header.block_size, 5) = AddInt(Widen(ReadLe(wvBytes, 4, 4), 5), 8)

\* C19: hybrid_mode_params_control_noise_level is true exactly when bit 9 of
\* the flag word is 1.
C19_Bit9SetMeansNoiseLevel ==
    (wvPc = "open" /\ Len(wvBytes) = HeaderSIZE) =>
        (header.hybrid_mode_params_control_noise_level <=> (FlagBytes[3] \div 2) % 2 = 1)

\* C18: on a successful try_new, decode_header consumed exactly 32 bytes and
\* the rewind put the cursor back where it was when try_new was entered,
\* going back no further than the seek-back length made re-readable.
C18_RewindRestoresCursor ==
    wvPc = "open" =>
        /\ wvConsumed = 32
        /\ wvPos = wvStart
        /\ (wvStart + wvConsumed) - wvPos <= wvSeekback

\* a stream entered past its first bytes was opened and rewound
C18_Witness ==
    /\ wvPc = "open"
    /\ wvStart > 0
    /\ wvPos = wvStart
    /\ wvConsumed = 32

====
